---- MODULE Spec2Model ----
(***************************************************************************)
(* Model of fgp-workflow: the execution context (context.rs), the workflow *)
(* executor (executor.rs), the workflow/step builders (workflow.rs,        *)
(* step.rs) and the YAML entry point with its validation (yaml.rs).        *)
(*                                                                         *)
(* Strings are sequences of one-character strings, so that emptiness,      *)
(* substring tests, template scanning, rendering and JSON parsing are      *)
(* computed.  A serde_json::Value is a record of one fixed shape           *)
(*   [t, n, s, kids]                                                       *)
(* with t the variant tag, n the integer of a number (or 0/1 of a bool),   *)
(* s the text of a string and kids the members of an array (keys empty)    *)
(* or of an object (sorted by key, as serde_json's map compares maps       *)
(* regardless of insertion order).  Durations (duration_ms, total_ms) and  *)
(* tracing output are timing/instrumentation only and are not modelled.    *)
(***************************************************************************)
EXTENDS Integers, Sequences, FiniteSets, TLC

VARIABLES
    wf,            \* per caller: the Workflow value the caller holds
    parsed,        \* per caller: result of the caller's last parse_yaml
    pc,            \* per caller: position inside execute
    index,         \* per caller: loop index of execute (steps completed)
    ctx,           \* per caller: the local `ctx` of the running execute
    step_results,  \* per caller: the local `step_results` of execute
    calls,         \* per caller: collaborator calls issued by this execute
    responses,     \* per caller: collaborator responses received by it
    outcome,       \* per caller: what execute returned
    executions,    \* number of execute invocations so far
    store,         \* a Context driven directly through its public API
    ret            \* what the last API operation on `store` returned

vars == <<wf, parsed, pc, index, ctx, step_results, calls, responses,
          outcome, executions, store, ret>>

runVars == <<wf, parsed, pc, index, ctx, step_results, calls, responses,
             outcome, executions>>

storeVars == <<store, ret>>

(***************************************************************************)
(* Text                                                                    *)
(***************************************************************************)

\* The characters used by the strings of the model, in byte order.
Alphabet ==
    << " ", "$", ",", "-", ".", "0", "1", "2", "3", "4", "5", "6", "7", "8",
       "9", "[", "]", "_", "a", "b", "c", "d", "e", "f", "g", "h", "i", "j",
       "k", "l", "m", "n", "o", "p", "q", "r", "s", "t", "u", "v", "w", "x",
       "y", "z", "{", "}" >>

CharOrd(c) == CHOOSE i \in 1..Len(Alphabet) : Alphabet[i] = c

Digits == <<"0", "1", "2", "3", "4", "5", "6", "7", "8", "9">>

IsDigit(c) == \E i \in 1..10 : Digits[i] = c

DigitVal(c) == (CHOOSE i \in 1..10 : Digits[i] = c) - 1

\* String ordering (Ord for str: bytewise lexicographic).
RECURSIVE StrLess(_, _)
StrLess(a, b) ==
    IF Len(b) = 0 THEN FALSE
    ELSE IF Len(a) = 0 THEN TRUE
    ELSE IF Head(a) = Head(b) THEN StrLess(Tail(a), Tail(b))
    ELSE CharOrd(Head(a)) < CharOrd(Head(b))

\* str::contains(pat)
Contains(s, pat) ==
    \E i \in 1..(Len(s) - Len(pat) + 1) :
        SubSeq(s, i, i + Len(pat) - 1) = pat

\* First position (1-based) at or after `from` where pat occurs in s; 0 if none.
Find(s, pat, from) ==
    LET hits == { i \in from..(Len(s) - Len(pat) + 1) :
                      SubSeq(s, i, i + Len(pat) - 1) = pat }
    IN IF hits = {} THEN 0 ELSE CHOOSE i \in hits : \A j \in hits : i <= j

RECURSIVE TrimLeft(_)
TrimLeft(s) == IF Len(s) > 0 /\ Head(s) = " " THEN TrimLeft(Tail(s)) ELSE s

RECURSIVE TrimRight(_)
TrimRight(s) ==
    IF Len(s) > 0 /\ s[Len(s)] = " " THEN TrimRight(SubSeq(s, 1, Len(s) - 1))
    ELSE s

Trim(s) == TrimRight(TrimLeft(s))

\* Decimal text of a natural number (Display of an unsigned integer).
RECURSIVE NatToStr(_)
NatToStr(n) ==
    IF n < 10 THEN <<Digits[n + 1]>>
    ELSE NatToStr(n \div 10) \o <<Digits[(n % 10) + 1]>>

IntToStr(n) == IF n < 0 THEN <<"-">> \o NatToStr(0 - n) ELSE NatToStr(n)

RECURSIVE StrToNat(_)
StrToNat(s) ==
    IF Len(s) = 0 THEN 0
    ELSE StrToNat(SubSeq(s, 1, Len(s) - 1)) * 10 + DigitVal(s[Len(s)])

(***************************************************************************)
(* serde_json::Value                                                       *)
(***************************************************************************)

Null == [t |-> "null", n |-> 0, s |-> <<>>, kids |-> <<>>]

Bool(b) == [t |-> "bool", n |-> IF b THEN 1 ELSE 0, s |-> <<>>, kids |-> <<>>]

Num(i) == [t |-> "num", n |-> i, s |-> <<>>, kids |-> <<>>]

Str(text) == [t |-> "str", n |-> 0, s |-> text, kids |-> <<>>]

\* Value::Array of the sequence of values vs.
Arr(vs) ==
    [t |-> "arr", n |-> 0, s |-> <<>>,
     kids |-> [i \in 1..Len(vs) |-> [k |-> <<>>, v |-> vs[i]]]]

\* The keys of a set, as the sequence sorted by StrLess.
RECURSIVE SortedKeys(_)
SortedKeys(ks) ==
    IF ks = {} THEN <<>>
    ELSE LET m == CHOOSE k \in ks : \A o \in ks \ {k} : StrLess(k, o)
         IN <<m>> \o SortedKeys(ks \ {m})

\* Value::Object of the map m (a function from keys to values).
Obj(m) ==
    LET ks == SortedKeys(DOMAIN m)
    IN [t |-> "obj", n |-> 0, s |-> <<>>,
        kids |-> [i \in 1..Len(ks) |-> [k |-> ks[i], v |-> m[ks[i]]]]]

ObjKeys(o) == { o.kids[i].k : i \in 1..Len(o.kids) }

\* Value::get(key) on an object; absent is reported by HasKey.
HasKey(o, key) == o.t = "obj" /\ key \in ObjKeys(o)

ObjGet(o, key) == (CHOOSE i \in 1..Len(o.kids) : o.kids[i].k = key)

Member(o, key) == o.kids[ObjGet(o, key)].v

\* The elements of an array value, as a sequence of values.
Elems(a) == [i \in 1..Len(a.kids) |-> a.kids[i].v]

\* The empty map and map insertion (HashMap::insert / Map::insert).
EmptyMap == <<>>

Insert(m, key, val) ==
    [x \in (DOMAIN m) \cup {key} |-> IF x = key THEN val ELSE m[x]]

\* Option<Value> and Option<String>
NoneVal == [some |-> FALSE, v |-> Null]

NoneStr == [some |-> FALSE, v |-> <<>>]

Some(val) == [some |-> TRUE, v |-> val]

(***************************************************************************)
(* serde_json::from_str::<Value> on the texts of the model: optional       *)
(* surrounding spaces, integers, true/false/null, arrays of these and the  *)
(* empty object.  The alphabet has no quote and no colon, so no string     *)
(* literal and no non-empty object can occur; texts with a fraction or an  *)
(* exponent do not occur in the model.                                     *)
(***************************************************************************)

IsNatText(s) ==
    /\ Len(s) > 0
    /\ \A i \in 1..Len(s) : IsDigit(s[i])
    /\ (Len(s) > 1 => s[1] # "0")

IsIntText(s) ==
    \/ IsNatText(s)
    \/ Len(s) > 1 /\ s[1] = "-" /\ IsNatText(Tail(s)) /\ Tail(s) # <<"0">>

IntOfText(s) == IF s[1] = "-" THEN 0 - StrToNat(Tail(s)) ELSE StrToNat(s)

\* Splits s at the commas outside brackets: depth d, current piece cur.
RECURSIVE SplitTop(_, _, _)
SplitTop(s, d, cur) ==
    IF Len(s) = 0 THEN <<cur>>
    ELSE LET c == Head(s)
         IN IF c = "," /\ d = 0 THEN <<cur>> \o SplitTop(Tail(s), 0, <<>>)
            ELSE SplitTop(Tail(s),
                          IF c = "[" THEN d + 1 ELSE IF c = "]" THEN d - 1 ELSE d,
                          Append(cur, c))

RECURSIVE ParseJson(_)
ParseJson(text) ==
    LET s == Trim(text)
    IN IF IsIntText(s) THEN Some(Num(IntOfText(s)))
       ELSE IF s = <<"t", "r", "u", "e">> THEN Some(Bool(TRUE))
       ELSE IF s = <<"f", "a", "l", "s", "e">> THEN Some(Bool(FALSE))
       ELSE IF s = <<"n", "u", "l", "l">> THEN Some(Null)
       ELSE IF Len(s) >= 2 /\ s[1] = "{" /\ s[Len(s)] = "}"
               /\ Trim(SubSeq(s, 2, Len(s) - 1)) = <<>>
            THEN Some([t |-> "obj", n |-> 0, s |-> <<>>, kids |-> <<>>])
       ELSE IF Len(s) >= 2 /\ s[1] = "[" /\ s[Len(s)] = "]"
            THEN LET inner == SubSeq(s, 2, Len(s) - 1)
                     parts == SplitTop(inner, 0, <<>>)
                     elems == [i \in 1..Len(parts) |-> ParseJson(parts[i])]
                 IN IF Trim(inner) = <<>> THEN Some(Arr(<<>>))
                    ELSE IF \A i \in 1..Len(parts) : elems[i].some
                         THEN Some(Arr([i \in 1..Len(parts) |-> elems[i].v]))
                         ELSE NoneVal
       ELSE NoneVal

(***************************************************************************)
(* Handlebars rendering (Handlebars::new(), strict mode off) that          *)
(* render_template relies on, for templates made of literal text and       *)
(* {{ path }} expressions with dotted paths.  The alphabet has none of the *)
(* characters the default HTML escaping rewrites.                          *)
(***************************************************************************)

Open2 == <<"{", "{">>

Close2 == <<"}", "}">>

IsIdentChar(c) == c \in {"$", "_", "-"} \/ IsDigit(c) \/ (CharOrd(c) >= CharOrd("a") /\ CharOrd(c) <= CharOrd("z"))

\* The segments of a dotted path.
RECURSIVE SplitDots(_, _)
SplitDots(s, cur) ==
    IF Len(s) = 0 THEN <<cur>>
    ELSE IF Head(s) = "." THEN <<cur>> \o SplitDots(Tail(s), <<>>)
    ELSE SplitDots(Tail(s), Append(cur, Head(s)))

IsPath(e) ==
    LET segs == SplitDots(e, <<>>)
    IN \A i \in 1..Len(segs) :
          /\ Len(segs[i]) > 0
          /\ \A j \in 1..Len(segs[i]) : IsIdentChar(segs[i][j])

\* One navigation step into a value: an object member or an array element.
StepInto(cur, seg) ==
    IF ~cur.some THEN NoneVal
    ELSE IF cur.v.t = "obj" /\ HasKey(cur.v, seg) THEN Some(Member(cur.v, seg))
    ELSE IF cur.v.t = "arr" /\ IsNatText(seg) /\ StrToNat(seg) < Len(cur.v.kids)
         THEN Some(cur.v.kids[StrToNat(seg) + 1].v)
    ELSE NoneVal

RECURSIVE Navigate(_, _)
Navigate(cur, segs) ==
    IF Len(segs) = 0 THEN cur ELSE Navigate(StepInto(cur, Head(segs)), Tail(segs))

\* The value a path names in the render data; absent when any segment is missing.
Lookup(data, path) ==
    LET segs == SplitDots(path, <<>>)
    IN IF Head(segs) \in DOMAIN data
       THEN Navigate(Some(data[Head(segs)]), Tail(segs))
       ELSE NoneVal

\* The text Handlebars writes for a value.
RECURSIVE RenderValue(_)
RECURSIVE JoinRendered(_)
JoinRendered(ks) ==
    IF Len(ks) = 0 THEN <<>>
    ELSE IF Len(ks) = 1 THEN RenderValue(ks[1].v)
    ELSE RenderValue(ks[1].v) \o <<",", " ">> \o JoinRendered(Tail(ks))

RenderValue(v) ==
    CASE v.t = "null" -> <<>>
      [] v.t = "bool" -> IF v.n = 1 THEN <<"t", "r", "u", "e">>
                                    ELSE <<"f", "a", "l", "s", "e">>
      [] v.t = "num"  -> IntToStr(v.n)
      [] v.t = "str"  -> v.s
      [] v.t = "arr"  -> <<"[">> \o JoinRendered(v.kids) \o <<"]">>
      [] v.t = "obj"  -> <<"[", "o", "b", "j", "e", "c", "t", "]">>

\* Slip: strict mode switched on, so a missing path is an error.
StrictModeOn == TRUE

\* hb.set_strict_mode(false)
StrictMode == FALSE

\* Display text of a handlebars error.  An expression that cannot be parsed
\* is a template error, whose text quotes the template; an expression with
\* arguments names a helper, none is registered, and the error names the
\* helper only; a missing path in strict mode names the path only.
HbParseError(template) == <<"T", "e", "m", "p", "l", "a", "t", "e", " ", "e", "r", "r", "o", "r", ":", " ">> \o template

HbHelperError(expr) ==
    <<"H", "e", "l", "p", "e", "r", " ", "n", "o", "t", " ", "d", "e", "f", "i", "n", "e", "d", ":", " ">>
    \o SubSeq(expr, 1, Find(expr, <<" ">>, 1) - 1)

HbStrictError(expr) == <<"V", "a", "r", "i", "a", "b", "l", "e", " ", "n", "o", "t", " ", "f", "o", "u", "n", "d", ":", " ">> \o expr

\* An expression `name arg ...`: a helper call.
IsHelperCall(expr) ==
    LET sp == Find(expr, <<" ">>, 1)
    IN sp > 1 /\ IsPath(SubSeq(expr, 1, sp - 1))

\* Handlebars::render_template(template, data): ok with the rendered text, or
\* not ok with the error's text, for an unclosed or malformed expression.  A
\* missing path renders as the empty text unless strict mode is on.
RECURSIVE HbRender(_, _)
HbRender(template, data) ==
    LET open == Find(template, Open2, 1)
    IN IF open = 0 THEN [ok |-> TRUE, text |-> template]
       ELSE LET close == Find(template, Close2, open + 2)
                expr  == Trim(SubSeq(template, open + 2, close - 1))
                found == Lookup(data, expr)
                rest  == HbRender(SubSeq(template, close + 2, Len(template)), data)
            IN IF close = 0 THEN [ok |-> FALSE, text |-> HbParseError(template)]
               ELSE IF ~IsPath(expr)
               THEN [ok |-> FALSE,
                     text |-> IF IsHelperCall(expr) THEN HbHelperError(expr)
                              ELSE HbParseError(template)]
               ELSE IF ~rest.ok THEN rest
               ELSE IF ~found.some /\ StrictMode
               THEN [ok |-> FALSE, text |-> HbStrictError(expr)]
               ELSE [ok |-> TRUE,
                     text |-> SubSeq(template, 1, open - 1)
                              \o (IF found.some THEN RenderValue(found.v) ELSE <<>>)
                              \o rest.text]

(***************************************************************************)
(* Context (context.rs)                                                    *)
(***************************************************************************)

KeyTemplate == <<"_", "_", "t", "e", "m", "p", "l", "a", "t", "e", "_", "_">>

KeyDPrev == <<"$", "p", "r", "e", "v">>

KeyPrev == <<"p", "r", "e", "v">>

KeyDResults == <<"$", "r", "e", "s", "u", "l", "t", "s">>

KeyResults == <<"r", "e", "s", "u", "l", "t", "s">>

ReservedKeys == {KeyDPrev, KeyPrev, KeyDResults, KeyResults}

\* Slip: one context kept between invocations instead of a fresh one.
ContextShared == ctx["r1"]

\* Context::new
ContextNew == [variables |-> EmptyMap, results |-> <<>>]

\* Slip: binding a name drops every other variable.
SetClearing(c, name, value) ==
    [c EXCEPT !.variables = Insert(EmptyMap, name, value)]

\* Context::set
Set(c, name, value) == [c EXCEPT !.variables = Insert(@, name, value)]

\* Context::get
Get(c, name) ==
    IF name \in DOMAIN c.variables THEN Some(c.variables[name]) ELSE NoneVal

\* Slip: the new result replaces the history instead of extending it.
PushResultReplace(c, value) == [c EXCEPT !.results = <<value>>]

\* Context::push_result
PushResult(c, value) == [c EXCEPT !.results = Append(@, value)]

\* Context::prev
Prev(c) ==
    IF Len(c.results) = 0 THEN NoneVal ELSE Some(c.results[Len(c.results)])

\* Context::results
Results(c) == c.results

\* The `data` map render_template builds: the variables, then $prev/prev when
\* there is a previous result, then $results/results.
TemplateData(c) ==
    LET d0 == c.variables
        d1 == IF Prev(c).some
              THEN Insert(Insert(d0, KeyDPrev, Prev(c).v), KeyPrev, Prev(c).v)
              ELSE d0
    IN Insert(Insert(d1, KeyDResults, Arr(c.results)), KeyResults, Arr(c.results))

\* Results of resolve / render_template: Ok(value) or Err.
OkVal(v) == [ok |-> TRUE, v |-> v, template |-> <<>>]

ErrRender(template) == [ok |-> FALSE, v |-> Null, template |-> template]

\* Slip: the rendered text is returned as a string without trying JSON.
RenderTemplateRaw(c, template) ==
    LET rendered == HbRender(template, TemplateData(c))
    IN IF ~rendered.ok THEN ErrRender(template) ELSE OkVal(Str(rendered.text))

\* Context::render_template
RenderTemplate(c, template) ==
    LET rendered == HbRender(template, TemplateData(c))
        json     == ParseJson(rendered.text)
    IN IF ~rendered.ok THEN ErrRender(template)
       ELSE IF json.some THEN OkVal(json.v)
       ELSE OkVal(Str(rendered.text))

\* Slip: the marker counts only when it is the record's single key.
IsTemplateRecordAlone(value) ==
    /\ Len(value.kids) = 1
    /\ value.kids[1].k = KeyTemplate
    /\ value.kids[1].v.t = "str"

\* resolve, Object arm: `map.get("__template__")` is a `Value::String`.
IsTemplateRecord(value) ==
    HasKey(value, KeyTemplate) /\ Member(value, KeyTemplate).t = "str"

\* Slip: every string is rendered, with or without braces.
IsInlineTemplateAlways(s) == TRUE

\* resolve, String arm: `s.contains("{{") && s.contains("}}")`.
IsInlineTemplate(s) == Contains(s, Open2) /\ Contains(s, Close2)

\* Context::resolve
RECURSIVE Resolve(_, _)
Resolve(c, value) ==
    CASE value.t = "obj" ->
           IF IsTemplateRecord(value)
           THEN RenderTemplate(c, Member(value, KeyTemplate).s)
           ELSE LET rs  == [i \in 1..Len(value.kids) |-> Resolve(c, value.kids[i].v)]
                    bad == { i \in 1..Len(value.kids) : ~rs[i].ok }
                IN IF bad # {}
                   THEN rs[CHOOSE i \in bad : \A j \in bad : i <= j]
                   ELSE OkVal([value EXCEPT !.kids =
                                 [i \in 1..Len(value.kids) |->
                                    [k |-> value.kids[i].k, v |-> rs[i].v]]])
      [] value.t = "arr" ->
           LET rs  == [i \in 1..Len(value.kids) |-> Resolve(c, value.kids[i].v)]
               bad == { i \in 1..Len(value.kids) : ~rs[i].ok }
           IN IF bad # {}
              THEN rs[CHOOSE i \in bad : \A j \in bad : i <= j]
              ELSE OkVal(Arr([i \in 1..Len(value.kids) |-> rs[i].v]))
      [] value.t = "str" ->
           IF IsInlineTemplate(value.s)
           THEN RenderTemplate(c, value.s)
           ELSE OkVal(value)
      [] OTHER -> OkVal(value)

\* Context::as_json
AsJson(c) ==
    LET d0 == c.variables
        d1 == IF Prev(c).some THEN Insert(d0, KeyDPrev, Prev(c).v) ELSE d0
    IN Obj(Insert(d1, KeyDResults, Arr(c.results)))

(***************************************************************************)
(* Step and StepBuilder (step.rs), Workflow and WorkflowBuilder            *)
(* (workflow.rs)                                                           *)
(***************************************************************************)

\* StepBuilder::new / Step::call
StepCall(service, method) ==
    [service |-> service, method |-> method, params |-> EmptyMap,
     output |-> NoneStr, description |-> NoneStr]

\* StepBuilder::with_param
WithParam(b, key, value) == [b EXCEPT !.params = Insert(@, key, value)]

\* StepBuilder::with_template_param
WithTemplateParam(b, key, template) ==
    [b EXCEPT !.params =
        Insert(@, key, Obj(Insert(EmptyMap, KeyTemplate, Str(template))))]

\* StepBuilder::output
Output(b, name) == [b EXCEPT !.output = Some(name)]

\* WorkflowBuilder::new / Workflow::new
WorkflowNew(name) == [name |-> name, description |-> NoneStr, steps |-> <<>>]

\* WorkflowBuilder::add (StepBuilder::build and WorkflowBuilder::build return
\* the value built so far)
Add(b, step) == [b EXCEPT !.steps = Append(@, step)]

\* Workflow::empty
WorkflowEmpty(name) == [name |-> name, description |-> NoneStr, steps |-> <<>>]

(***************************************************************************)
(* yaml.rs                                                                 *)
(***************************************************************************)

MsgParse == <<"F", "a", "i", "l", "e", "d", " ", "t", "o", " ", "p", "a", "r", "s", "e", " ",
        "w", "o", "r", "k", "f", "l", "o", "w", " ", "Y", "A", "M", "L">>

MsgName == <<"W", "o", "r", "k", "f", "l", "o", "w", " ", "n", "a", "m", "e", " ", "c", "a",
        "n", "n", "o", "t", " ", "b", "e", " ", "e", "m", "p", "t", "y">>

MsgNoSteps == <<"W", "o", "r", "k", "f", "l", "o", "w", " ", "m", "u", "s", "t", " ", "h",
        "a", "v", "e", " ", "a", "t", " ", "l", "e", "a", "s", "t", " ", "o", "n", "e", " ",
        "s", "t", "e", "p">>

MsgService(i) ==
    <<"S", "t", "e", "p", " ">> \o NatToStr(i) \o <<" ", "h", "a", "s", " ", "e", "m", "p",
        "t", "y", " ", "s", "e", "r", "v", "i", "c", "e", " ", "n", "a", "m", "e">>

MsgMethod(i) ==
    <<"S", "t", "e", "p", " ">> \o NatToStr(i) \o <<" ", "h", "a", "s", " ", "e", "m", "p",
        "t", "y", " ", "m", "e", "t", "h", "o", "d", " ", "n", "a", "m", "e">>

\* The first step (0-based) with an empty service or method, or -1.
FirstBadStep(steps) ==
    LET bad == { i \in 1..Len(steps) :
                    Len(steps[i].service) = 0 \/ Len(steps[i].method) = 0 }
    IN IF bad = {} THEN -1 ELSE (CHOOSE i \in bad : \A j \in bad : i <= j) - 1

\* Slip: every service is checked before any method.
ValidateServicesFirst(w) ==
    LET noSvc == { i \in 1..Len(w.steps) : Len(w.steps[i].service) = 0 }
        noMth == { i \in 1..Len(w.steps) : Len(w.steps[i].method) = 0 }
    IN IF Len(w.name) = 0 THEN [ok |-> FALSE, msg |-> MsgName]
       ELSE IF Len(w.steps) = 0 THEN [ok |-> FALSE, msg |-> MsgNoSteps]
       ELSE IF noSvc # {}
            THEN [ok |-> FALSE,
                  msg |-> MsgService((CHOOSE i \in noSvc : \A j \in noSvc : i <= j) - 1)]
       ELSE IF noMth # {}
            THEN [ok |-> FALSE,
                  msg |-> MsgMethod((CHOOSE i \in noMth : \A j \in noMth : i <= j) - 1)]
       ELSE [ok |-> TRUE, msg |-> <<>>]

\* validate: Ok(()) or the message of the first failed check.
Validate(w) ==
    LET i == FirstBadStep(w.steps)
    IN IF Len(w.name) = 0 THEN [ok |-> FALSE, msg |-> MsgName]
       ELSE IF Len(w.steps) = 0 THEN [ok |-> FALSE, msg |-> MsgNoSteps]
       ELSE IF i >= 0
            THEN IF Len(w.steps[i + 1].service) = 0
                 THEN [ok |-> FALSE, msg |-> MsgService(i)]
                 ELSE [ok |-> FALSE, msg |-> MsgMethod(i)]
       ELSE [ok |-> TRUE, msg |-> <<>>]

\* parse_yaml on a document: serde_yaml either fails to produce a Workflow or
\* produces doc.w, which is then validated.
ParseYamlResult(doc) ==
    IF ~doc.wellformed THEN [ok |-> FALSE, msg |-> MsgParse]
    ELSE Validate(doc.w)

(***************************************************************************)
(* executor.rs                                                             *)
(***************************************************************************)

MsgRender == <<"F", "a", "i", "l", "e", "d", " ", "t", "o", " ", "r", "e", "n", "d", "e", "r",
        " ", "t", "e", "m", "p", "l", "a", "t", "e">>

\* format!("Step {} ({}.{}) failed", index, service, method)
MsgFailed(i, service, method) ==
    <<"S", "t", "e", "p", " ">> \o NatToStr(i) \o <<" ", "(">> \o service \o <<".">> \o method
    \o <<")", " ", "f", "a", "i", "l", "e", "d">>

\* Slip: the remote message is left out of the text.
MsgReturnedBare(i, service, method, error) ==
    <<"S", "t", "e", "p", " ">> \o NatToStr(i) \o <<" ", "(">> \o service
    \o <<".">> \o method
    \o <<")", " ", "r", "e", "t", "u", "r", "n", "e", "d", " ", "e", "r", "r", "o", "r", ":", " ">>

\* format!("Step {} ({}.{}) returned error: {}", index, service, method, error)
MsgReturned(i, service, method, error) ==
    <<"S", "t", "e", "p", " ">> \o NatToStr(i) \o <<" ", "(">> \o service \o <<".">> \o method
    \o <<")", " ", "r", "e", "t", "u", "r", "n", "e", "d", " ", "e", "r", "r", "o", "r", ":",
        " ">> \o error

\* An anyhow::Error: its Display text and the text of the error it wraps.
Error(kind, msg, source) == [kind |-> kind, msg |-> msg, source |-> source]

NoError == [kind |-> "none", msg |-> <<>>, source |-> <<>>]

NoResult == [result |-> Null, step_results |-> <<>>,
             context |-> [variables |-> <<>>, results |-> <<>>]]

NoOutcome == [tag |-> "none", value |-> NoResult, err |-> NoError]

OkOutcome(result, srs, c) ==
    [tag |-> "ok",
     value |-> [result |-> result, step_results |-> srs, context |-> c],
     err |-> NoError]

ErrOutcome(e) == [tag |-> "err", value |-> NoResult, err |-> e]

\* Slip: a parameter that fails to resolve is sent as null.
ResolveParamsLenient(c, params) ==
    [ok   |-> TRUE,
     v    |-> Obj([k \in DOMAIN params |-> Resolve(c, params[k]).v]),
     errs |-> {}]

\* resolve_params: the resolved object, or the errors it may return (the first
\* failing parameter in the HashMap's iteration order, which is unspecified).
ResolveParams(c, params) ==
    LET rs == [k \in DOMAIN params |-> Resolve(c, params[k])]
    IN [ok   |-> \A k \in DOMAIN params : rs[k].ok,
        v    |-> Obj([k \in DOMAIN params |-> rs[k].v]),
        errs |-> { rs[k].template : k \in { x \in DOMAIN params : ~rs[x].ok } }]

\* Slip: the final value taken from the front of the history.
FinalResultFirst(c) == IF Len(c.results) > 0 THEN c.results[1] ELSE Null

\* The final value execute returns: ctx.prev().cloned().unwrap_or(Value::Null)
FinalResult(c) == IF Prev(c).some THEN Prev(c).v ELSE Null

\* Slip: the result is bound to the output name but not appended.
StoreResultBindOnly(c, step, result) ==
    IF step.output.some THEN Set(c, step.output.v, result) ELSE c

\* The store update of a successful step: push_result, then set when the step
\* names an output.
StoreResult(c, step, result) ==
    LET pushed == PushResult(c, result)
    IN IF step.output.some THEN Set(pushed, step.output.v, result) ELSE pushed

\* Slip: step results numbered from one.
StepResultOneBased(i, step, result) ==
    [index |-> i + 1, step |-> step, result |-> result]

\* The StepResult of a step (duration_ms left out).
StepResult(i, step, result) == [index |-> i, step |-> step, result |-> result]

\* Slip: the steps visited from the back.
StepAtReversed(w, i) == w.steps[Len(w.steps) - i]

\* The step of loop iteration `i` (workflow.steps.iter().enumerate()).
StepAt(w, i) == w.steps[i + 1]

\* Slip: a call that failed counts as a step that returned nothing.
InterpretCallFailureAsNull(i, step, resp) ==
    IF resp.sent /\ ~resp.ok
    THEN [ok |-> FALSE, result |-> Null,
          err |-> Error("returned",
                        MsgReturned(i, step.service, step.method,
                                    IF resp.error.some THEN resp.error.v ELSE <<>>),
                        <<>>)]
    ELSE [ok |-> TRUE,
          result |-> IF resp.sent /\ resp.result.some THEN resp.result.v ELSE Null,
          err |-> NoError]

\* Slip: a response without a result payload is taken for a failure.
InterpretRequireResult(i, step, resp) ==
    IF ~resp.sent
    THEN [ok |-> FALSE, result |-> Null,
          err |-> Error("call", MsgFailed(i, step.service, step.method),
                        resp.failure)]
    ELSE IF ~resp.ok \/ ~resp.result.some
    THEN [ok |-> FALSE, result |-> Null,
          err |-> Error("returned",
                        MsgReturned(i, step.service, step.method,
                                    IF resp.error.some THEN resp.error.v ELSE <<>>),
                        <<>>)]
    ELSE [ok |-> TRUE, result |-> resp.result.v, err |-> NoError]

\* Slip: the ok flag of the response is not looked at.
InterpretIgnoreOk(i, step, resp) ==
    IF ~resp.sent
    THEN [ok |-> FALSE, result |-> Null,
          err |-> Error("call", MsgFailed(i, step.service, step.method),
                        resp.failure)]
    ELSE [ok |-> TRUE,
          result |-> IF resp.result.some THEN resp.result.v ELSE Null,
          err |-> NoError]

\* How execute reads what call_auto_start gave for step i: the call failed,
\* the response has ok = false, or the step succeeded with
\* response.result.unwrap_or(Value::Null).
Interpret(i, step, resp) ==
    IF ~resp.sent
    THEN [ok |-> FALSE, result |-> Null,
          err |-> Error("call", MsgFailed(i, step.service, step.method),
                        resp.failure)]
    ELSE IF ~resp.ok
    THEN [ok |-> FALSE, result |-> Null,
          err |-> Error("returned",
                        MsgReturned(i, step.service, step.method,
                                    IF resp.error.some THEN resp.error.v ELSE <<>>),
                        <<>>)]
    ELSE [ok |-> TRUE,
          result |-> IF resp.result.some THEN resp.result.v ELSE Null,
          err |-> NoError]


\* Display text of the handlebars error a failed render of `template` wraps.
HbErrorText(template) == HbRender(template, EmptyMap).text

(***************************************************************************)
(* The inputs of the model: names, values, workflows, YAML documents and   *)
(* collaborator responses.                                                 *)
(***************************************************************************)

NameT == <<"t">>

NameW == <<"w">>

Svc == <<"s", "v", "c">>

M1 == <<"m", "1">>

M2 == <<"m", "2">>

VarA == <<"a">>

KeyX == <<"x">>

KeyY == <<"y">>

KeyLimit == <<"l", "i", "m", "i", "t">>

\* The end-to-end workflow: step 0 binds `a`, step 1 sends "{{a}}-suffix".
WfPipe ==
    Add(Add(WorkflowNew(NameT),
            Output(WithParam(StepCall(Svc, M1), KeyLimit, Num(5)), VarA)),
        WithTemplateParam(StepCall(Svc, M2), KeyX, <<"{", "{", "a", "}", "}", "-", "s", "u", "f", "f", "i", "x">>))

\* Two steps bind the same name; the third reads it and the previous result.
WfRebind ==
    Add(Add(Add(WorkflowNew(NameW),
                Output(StepCall(Svc, M1), VarA)),
            Output(StepCall(Svc, M2), VarA)),
        WithParam(WithParam(StepCall(Svc, M1), KeyX, Str(<<"{", "{", " ", "a", " ", "}", "}">>)),
                  KeyY, Str(<<"{", "{", "p", "r", "e", "v", "}", "}">>)))

\* Steps that bind the names the render data also uses for its aliases.
WfReserved ==
    Add(Add(Add(WorkflowNew(NameW),
                Output(StepCall(Svc, M1), KeyPrev)),
            Output(StepCall(Svc, M2), KeyResults)),
        WithParam(WithParam(StepCall(Svc, M2), KeyX, Str(<<"{", "{", "p", "r", "e", "v", "}", "}">>)),
                  KeyY, Str(<<"{", "{", "r", "e", "s", "u", "l", "t", "s", "}", "}">>)))

\* One step, no output, no parameters.
WfSingle == Add(WorkflowNew(NameW), StepCall(Svc, M1))

WfNoName == Add(WorkflowNew(<<>>), StepCall(Svc, M1))

WfNoSteps == WorkflowEmpty(NameW)

WfNothing == WorkflowNew(<<>>)

WfNoService == Add(WorkflowNew(NameW), StepCall(<<>>, <<>>))

WfNoMethod ==
    Add(Add(WorkflowNew(NameW), Output(StepCall(Svc, M1), VarA)),
        StepCall(Svc, <<>>))

WfTwoBad ==
    Add(Add(WorkflowNew(NameW), StepCall(Svc, <<>>)), StepCall(<<>>, M1))

\* Templates that read names no step has bound.
WfMissing ==
    Add(Add(WorkflowNew(NameW),
            Output(WithTemplateParam(
                       WithParam(StepCall(Svc, M1), KeyX, Str(<<"{", "{", "z", "}", "}", "-", "e", "n", "d">>)),
                       KeyY, <<"{", "{", "p", "r", "e", "v", "}", "}">>), VarA)),
        WithParam(StepCall(Svc, M2), KeyX, Str(<<"{", "{", "a", ".", "b", "}", "}", "{", "{", "z", "}", "}">>)))

\* Step 1 carries two templates handlebars rejects: an unclosed expression
\* and a call of a helper nobody registered.
WfBadTemplate ==
    Add(Add(Add(WorkflowNew(NameW),
                Output(StepCall(Svc, M1), VarA)),
            WithParam(WithTemplateParam(StepCall(Svc, M2), KeyX, <<"{", "{", "a">>),
                      KeyY, Str(<<"x", "{", "{", "a", " ", "b", "}", "}">>))),
        StepCall(Svc, M1))

\* The first step's only template calls an unregistered helper.
WfBadFirst ==
    Add(WorkflowNew(NameW), WithParam(StepCall(Svc, M1), KeyX, Str(<<"{", "{", "a", " ", "b", "}", "}", "-", "x">>)))

Workflows ==
    {WfPipe, WfRebind, WfReserved, WfSingle, WfNoName, WfNoSteps, WfNothing,
     WfNoService, WfNoMethod, WfTwoBad, WfMissing, WfBadTemplate, WfBadFirst}

\* What serde_yaml makes of a document: no Workflow (malformed YAML or a
\* missing field), or a Workflow value.
Docs ==
    {[wellformed |-> FALSE, w |-> WorkflowNew(<<>>)]}
    \cup {[wellformed |-> TRUE, w |-> w] : w \in Workflows}

\* Result<Response>: the call failed (sent = FALSE, with the failure's text) or
\* returned a Response {ok, result, error}.
Response(sent, failure, ok, result, error) ==
    [sent |-> sent, failure |-> failure, ok |-> ok, result |-> result,
     error |-> error]

RespCallFailed == Response(FALSE, <<"c", "o", "n", "n">>, FALSE, NoneVal, NoneStr)

RespBoom == Response(TRUE, <<>>, FALSE, NoneVal, Some(<<"b", "o", "o", "m">>))

RespNoMessage == Response(TRUE, <<>>, FALSE, NoneVal, NoneStr)

RespEmpty == Response(TRUE, <<>>, TRUE, NoneVal, NoneStr)

RespTen == Response(TRUE, <<>>, TRUE, Some(Num(10)), NoneStr)

RespSeven == Response(TRUE, <<>>, TRUE, Some(Num(7)), NoneStr)

Responses ==
    {RespCallFailed, RespBoom, RespNoMessage, RespEmpty, RespTen, RespSeven}

\* The callers of the library: each holds a workflow and runs it.
Runs == {"r1", "r2"}

\* Most invocations of execute in one behaviour.
MaxExecutions == 3

(***************************************************************************)
(* State machine                                                           *)
(***************************************************************************)

NoWorkflow == [held |-> FALSE, w |-> WorkflowNew(<<>>)]

NoParse ==
    [done |-> FALSE, doc |-> [wellformed |-> FALSE, w |-> WorkflowNew(<<>>)],
     ok |-> FALSE, w |-> WorkflowNew(<<>>), msg |-> <<>>]

Init ==
    /\ wf = [r \in Runs |-> NoWorkflow]
    /\ parsed = [r \in Runs |-> NoParse]
    /\ pc = [r \in Runs |-> "idle"]
    /\ index = [r \in Runs |-> 0]
    /\ ctx = [r \in Runs |-> [variables |-> <<>>, results |-> <<>>]]
    /\ step_results = [r \in Runs |-> <<>>]
    /\ calls = [r \in Runs |-> <<>>]
    /\ responses = [r \in Runs |-> <<>>]
    /\ outcome = [r \in Runs |-> NoOutcome]
    /\ executions = 0
    /\ store = [variables |-> <<>>, results |-> <<>>]
    /\ ret = [op |-> "new", name |-> <<>>, arg |-> Null, some |-> FALSE, v |-> Null]

NotRunning(r) == pc[r] \in {"idle", "done"}

\* A caller obtains its workflow before its first run and re-runs that one.
Fresh(r) == pc[r] = "idle"

\* parse_yaml(doc) by caller r: `parsed` is the Result it returns (the workflow
\* or the error message); on success the caller holds the workflow.
ParseYaml(r, doc) ==
    /\ Fresh(r)
    /\ LET res == ParseYamlResult(doc)
       IN /\ parsed' = [parsed EXCEPT ![r] =
                          [done |-> TRUE, doc |-> doc, ok |-> res.ok,
                           w |-> IF res.ok THEN doc.w ELSE WorkflowNew(<<>>),
                           msg |-> res.msg]]
          /\ wf' = [wf EXCEPT ![r] =
                      IF res.ok THEN [held |-> TRUE, w |-> doc.w] ELSE NoWorkflow]
    /\ UNCHANGED <<pc, index, ctx, step_results, calls, responses, outcome,
                   executions, store, ret>>

\* Workflow::new(name).add(..)...build() by caller r, for the builder chains
\* that produce the workflows of the model.
Build(r, w) ==
    /\ Fresh(r)
    /\ Len(w.steps) > 0 \/ w = WfNothing
    /\ wf' = [wf EXCEPT ![r] = [held |-> TRUE, w |-> w]]
    /\ UNCHANGED <<parsed, pc, index, ctx, step_results, calls, responses,
                   outcome, executions, store, ret>>

\* Workflow::empty(name) by caller r.
Empty(r, name) ==
    /\ Fresh(r)
    /\ wf' = [wf EXCEPT ![r] = [held |-> TRUE, w |-> WorkflowEmpty(name)]]
    /\ UNCHANGED <<parsed, pc, index, ctx, step_results, calls, responses,
                   outcome, executions, store, ret>>

\* execute from the top of loop iteration i, with store c and step results
\* srs, up to the point where it blocks in call_auto_start or returns:
\* the loop is over (Ok), resolve_params fails (Err), or the call is issued.
Proceed(r, c, srs, i) ==
    LET w    == wf[r].w
        step == StepAt(w, i)
        rp   == ResolveParams(c, step.params)
    IN /\ ctx' = [ctx EXCEPT ![r] = c]
       /\ step_results' = [step_results EXCEPT ![r] = srs]
       /\ index' = [index EXCEPT ![r] = i]
       /\ IF i >= Len(w.steps)
          THEN /\ pc' = [pc EXCEPT ![r] = "done"]
               /\ outcome' = [outcome EXCEPT ![r] = OkOutcome(FinalResult(c), srs, c)]
               /\ calls' = IF i = 0 THEN [calls EXCEPT ![r] = <<>>] ELSE calls
          ELSE IF ~rp.ok
          THEN /\ pc' = [pc EXCEPT ![r] = "done"]
               /\ \E t \in rp.errs :
                     outcome' = [outcome EXCEPT ![r] =
                        ErrOutcome(Error("template", MsgRender, HbErrorText(t)))]
               /\ calls' = IF i = 0 THEN [calls EXCEPT ![r] = <<>>] ELSE calls
          ELSE /\ pc' = [pc EXCEPT ![r] = "wait"]
               /\ outcome' = [outcome EXCEPT ![r] = NoOutcome]
               /\ calls' = [calls EXCEPT ![r] =
                    Append(IF i = 0 THEN <<>> ELSE @,
                           [service |-> step.service, method |-> step.method,
                            params |-> rp.v])]

\* execute(&workflow) is entered by caller r (Workflow::run, WorkflowBuilder::run
\* or execute itself): fresh context, no step results, first iteration.
Execute(r) ==
    /\ NotRunning(r)
    /\ wf[r].held
    /\ executions < MaxExecutions
    /\ executions' = executions + 1
    /\ responses' = [responses EXCEPT ![r] = <<>>]
    /\ Proceed(r, ContextNew, <<>>, 0)
    /\ UNCHANGED <<wf, parsed, store, ret>>

\* Slip: the iteration after a successful step skips a step.
NextIndexSkip(i) == i + 2

\* The loop index after iteration i (workflow.steps.iter().enumerate()).
NextIndex(i) == i + 1

\* call_auto_start returns resp to the execute of caller r, which handles it
\* and goes on to the next iteration.
Return(r, resp) ==
    /\ pc[r] = "wait"
    /\ responses' = [responses EXCEPT ![r] = Append(@, resp)]
    /\ LET i    == index[r]
           step == StepAt(wf[r].w, i)
           got  == Interpret(i, step, resp)
       IN IF ~got.ok
          THEN /\ pc' = [pc EXCEPT ![r] = "done"]
               /\ outcome' = [outcome EXCEPT ![r] = ErrOutcome(got.err)]
               /\ UNCHANGED <<ctx, step_results, index, calls>>
          ELSE Proceed(r, StoreResult(ctx[r], step, got.result),
                       Append(step_results[r], StepResult(i, step, got.result)),
                       NextIndex(i))
    /\ UNCHANGED <<wf, parsed, executions, store, ret>>

RunStep(r) ==
    \/ \E doc \in Docs : ParseYaml(r, doc)
    \/ \E w \in Workflows : Build(r, w)
    \/ \E name \in {NameW, <<>>} : Empty(r, name)
    \/ Execute(r)
    \/ \E resp \in Responses : Return(r, resp)

\* One caller.
Next == RunStep("r1")

Spec == Init /\ [][Next]_vars

\* One caller whose collaborator calls all return: call_auto_start blocks
\* execute until the collaborator has answered, so a pending call is
\* answered in the end.
SpecLive ==
    Init /\ [][Next]_vars /\ WF_vars(\E resp \in Responses : Return("r1", resp))

\* Two callers, interleaved at the collaborator calls, on the workflows that
\* read variables and history back.
ParWorkflows == {WfPipe, WfReserved}

ParResponses == {RespBoom, RespTen, RespSeven}

NextPar ==
    \E r \in Runs :
        \/ \E w \in ParWorkflows : Build(r, w)
        \/ Execute(r)
        \/ \E resp \in ParResponses : Return(r, resp)

SpecPar == Init /\ [][NextPar]_vars


(***************************************************************************)
(* A Context used directly through its public API, any operation at any    *)
(* time.  `ret` records the operation, its arguments and what it returned. *)
(***************************************************************************)

\* Longest history the API-driven store is given.
MaxResults == 2

ApiNames == {VarA, KeyPrev, KeyDResults}

ApiValues == {Num(10), Num(7)}

\* A marker record with sibling keys, one of them a template handlebars
\* would reject.
TplRecord ==
    Obj(Insert(Insert(Insert(EmptyMap, KeyTemplate, Str(<<"{", "{", "a", "}", "}">>)),
                      KeyX, Num(1)), KeyY, Str(<<"{", "{", "a", " ", "b", "}", "}">>)))

\* The marker key holding a number.
TplRecordNum ==
    Obj(Insert(Insert(EmptyMap, KeyTemplate, Num(5)), KeyX, Str(<<"{", "{", "a", "}", "}">>)))

\* {"a": {"__template__": "{{a}}"}, "limit": [1, "{{a}}-x", "{{a}}"]}
TplNested ==
    Obj(Insert(Insert(EmptyMap, VarA, Obj(Insert(EmptyMap, KeyTemplate, Str(<<"{", "{", "a", "}", "}">>)))),
               KeyLimit, Arr(<<Num(1), Str(<<"{", "{", "a", "}", "}", "-", "x">>), Str(<<"{", "{", "a", "}", "}">>)>>)))

\* Nothing to render: digit text, lone braces, scalars.
TplPlain ==
    Obj(Insert(Insert(EmptyMap, KeyX, Str(<<"1", "0">>)),
               KeyY, Arr(<<Str(<<"a", "{", "{", "b">>), Null, Bool(TRUE), Str(<<"}", "}">>)>>)))

TplUnclosed == Obj(Insert(EmptyMap, KeyTemplate, Str(<<"{", "{", "a">>)))

TplHelper == Arr(<<Num(1), Str(<<"{", "{", "a", " ", "b", "}", "}">>)>>)

ApiTemplates ==
    {Num(5), Str(<<"{", "{", "a", "}", "}">>), Str(<<"{", "{", "p", "r", "e", "v", "}", "}", "-", "{", "{", "z", "}", "}">>),
     TplRecord, TplRecordNum, TplNested, TplPlain, TplUnclosed, TplHelper}

Returned(op, name, arg, some, v) ==
    [op |-> op, name |-> name, arg |-> arg, some |-> some, v |-> v]

ApiSet(name, value) ==
    /\ store' = Set(store, name, value)
    /\ ret' = Returned("set", name, value, FALSE, Null)
    /\ UNCHANGED runVars

ApiGet(name) ==
    /\ ret' = Returned("get", name, Null, Get(store, name).some, Get(store, name).v)
    /\ UNCHANGED <<store, runVars>>

ApiPushResult(value) ==
    /\ Len(store.results) < MaxResults
    /\ store' = PushResult(store, value)
    /\ ret' = Returned("push_result", <<>>, value, FALSE, Null)
    /\ UNCHANGED runVars

ApiPrev ==
    /\ ret' = Returned("prev", <<>>, Null, Prev(store).some, Prev(store).v)
    /\ UNCHANGED <<store, runVars>>

ApiResults ==
    /\ ret' = Returned("results", <<>>, Null, TRUE, Arr(Results(store)))
    /\ UNCHANGED <<store, runVars>>

ApiResolve(value) ==
    /\ ret' = Returned("resolve", <<>>, value, Resolve(store, value).ok,
                       Resolve(store, value).v)
    /\ UNCHANGED <<store, runVars>>

ApiAsJson ==
    /\ ret' = Returned("as_json", <<>>, Null, TRUE, AsJson(store))
    /\ UNCHANGED <<store, runVars>>

NextStore ==
    \/ \E name \in ApiNames, value \in ApiValues : ApiSet(name, value)
    \/ \E name \in ApiNames : ApiGet(name)
    \/ \E value \in ApiValues : ApiPushResult(value)
    \/ ApiPrev
    \/ ApiResults
    \/ \E value \in ApiTemplates : ApiResolve(value)
    \/ ApiAsJson

SpecStore == Init /\ [][NextStore]_vars

(***************************************************************************)
(* Properties                                                              *)
(***************************************************************************)

\* The responses of the running (or last) execute of caller r that are
\* failures: the call itself failed, or the response has ok = false.
IsFailure(resp) == ~resp.sent \/ ~resp.ok

\* The payload of a successful response, null when it has none.
Payload(resp) == IF resp.result.some THEN resp.result.v ELSE Null

\* C1: fail-fast.  Once the call for step i has failed (the k-th response,
\* k = i + 1, is a failure), that response is the last one the run receives,
\* no call beyond the i + 1 calls of steps 0..i has been issued, the run has
\* returned, and what it returned is an error that holds no ExecutionResult.
C1_FailFast ==
    \A r \in Runs :
        \A k \in 1..Len(responses[r]) :
            IsFailure(responses[r][k]) =>
                /\ k = Len(responses[r])
                /\ Len(calls[r]) = k
                /\ pc[r] = "done"
                /\ outcome[r].tag = "err"
                /\ outcome[r].value = NoResult

\* C1 witness: step 1 of a three-step workflow failed after step 0 succeeded.
C1_Witness ==
    /\ Len(wf["r1"].w.steps) = 3
    /\ Len(responses["r1"]) = 2
    /\ ~IsFailure(responses["r1"][1])
    /\ IsFailure(responses["r1"][2])
    /\ pc["r1"] = "done"

\* C2: steps run in declared order, one at a time.  The k-th call of a run is
\* for workflow.steps[k] with its service and method; while a call is
\* outstanding it is the call of the current step and all earlier calls have
\* returned; and the call for the next step exists only when the result of the
\* step before it is already in the context's history.
C2_InOrder ==
    \A r \in Runs :
        /\ Len(calls[r]) <= Len(wf[r].w.steps)
        /\ \A k \in 1..Len(calls[r]) :
              /\ calls[r][k].service = wf[r].w.steps[k].service
              /\ calls[r][k].method = wf[r].w.steps[k].method
        /\ pc[r] = "wait" =>
              /\ Len(calls[r]) = Len(responses[r]) + 1
              /\ Len(ctx[r].results) = Len(responses[r])
        /\ pc[r] = "done" => Len(calls[r]) - Len(responses[r]) \in {0, 1}
        /\ \A k \in 1..(Len(calls[r]) - 1) :
              /\ k <= Len(responses[r])
              /\ ~IsFailure(responses[r][k])
              /\ k <= Len(ctx[r].results)
              /\ ctx[r].results[k] = Payload(responses[r][k])

\* C2 witness: the third call of a run is outstanding, after two steps with
\* different methods returned different results.
C2_Witness ==
    /\ pc["r1"] = "wait"
    /\ Len(calls["r1"]) = 3
    /\ calls["r1"][1].method # calls["r1"][2].method
    /\ ctx["r1"].results = <<Num(10), Num(7)>>

\* C3 as stated: the result is the last step's result when all steps succeed,
\* and it is null only when the step list is empty.
C3_NullOnlyWhenEmpty ==
    \A r \in Runs :
        outcome[r].tag = "ok" =>
            /\ Len(wf[r].w.steps) > 0 =>
                  outcome[r].value.result = Payload(responses[r][Len(responses[r])])
            /\ outcome[r].value.result = Null => Len(wf[r].w.steps) = 0

\* C3 amended: when all steps succeed the result is the last step's result,
\* which is null when that step's response carries no payload; for an empty
\* step list it is null.
C3_FinalResult ==
    \A r \in Runs :
        outcome[r].tag = "ok" =>
            /\ Len(responses[r]) = Len(wf[r].w.steps)
            /\ \A k \in 1..Len(responses[r]) : ~IsFailure(responses[r][k])
            /\ IF Len(wf[r].w.steps) = 0
               THEN outcome[r].value.result = Null
               ELSE LET last == responses[r][Len(responses[r])]
                    IN /\ last.result.some => outcome[r].value.result = last.result.v
                       /\ ~last.result.some => outcome[r].value.result = Null

\* C3 witness: a run of three steps succeeded, the last one without a payload
\* after two with different payloads, and returned null.
C3_Witness ==
    /\ outcome["r1"].tag = "ok"
    /\ Len(responses["r1"]) = 3
    /\ responses["r1"][1] = RespTen
    /\ responses["r1"][2] = RespSeven
    /\ responses["r1"][3] = RespEmpty
    /\ outcome["r1"].value.result = Null

\* The 0-based index of the latest step before step i that declares output
\* name o, or -1.
LatestBinder(w, i, o) ==
    LET ks == { k \in 1..i : w.steps[k].output.some /\ w.steps[k].output.v = o }
    IN IF ks = {} THEN -1 ELSE (CHOOSE k \in ks : \A j \in ks : j <= k) - 1

\* C4 as stated (a later step that declares the same name rebinds it: last
\* write wins): right after a successful step that declares output o, get(o)
\* is the step's result; and while the call of step i is outstanding, the
\* data its templates were rendered against holds, under every output name o
\* declared by an earlier step, the result of the latest such step.
C4_OutputAvailable ==
    \A r \in Runs :
        LET w == wf[r].w
            n == Len(ctx[r].results)
        IN /\ (n > 0 /\ w.steps[n].output.some) =>
                 Get(ctx[r], w.steps[n].output.v) = Some(Payload(responses[r][n]))
           /\ pc[r] = "wait" =>
                 \A k \in 1..index[r] :
                     w.steps[k].output.some =>
                        LET o == w.steps[k].output.v
                            b == LatestBinder(w, index[r], o)
                        IN /\ o \in DOMAIN TemplateData(ctx[r])
                           /\ TemplateData(ctx[r])[o] = Payload(responses[r][b + 1])

\* C5: the result history is append-only.  A push_result(v) step makes the
\* history the old history followed by v (one entry more, earlier entries
\* untouched) and makes prev() return v; every other step of the store (set,
\* get, prev, results, resolve, as_json) leaves the history as it was; and
\* prev() is absent exactly when the history is empty.
C5_AppendOnly ==
    [][ /\ IF ret'.op = "push_result"
           THEN /\ Len(store'.results) = Len(store.results) + 1
                /\ SubSeq(store'.results, 1, Len(store.results)) = store.results
                /\ store'.results[Len(store'.results)] = ret'.arg
                /\ Prev(store') = Some(ret'.arg)
           ELSE store'.results = store.results
        /\ Prev(store).some <=> Len(store.results) > 0
        /\ Prev(store').some <=> Len(store'.results) > 0
        /\ ret'.op = "prev" =>
              /\ ret'.some <=> Len(store.results) > 0
              /\ ret'.some => ret'.v = store.results[Len(store.results)]
        /\ ret'.op = "results" => ret'.v = Arr(store.results)
      ]_vars

\* C5 witness: push_result(v) followed immediately by push_result(w), w # v.
C5_Witness ==
    /\ ret.op = "push_result"
    /\ Len(store.results) = 2
    /\ store.results[1] # store.results[2]
    /\ store.results[2] = ret.arg

StartsWith(s, pre) == Len(s) >= Len(pre) /\ SubSeq(s, 1, Len(pre)) = pre

EndsWith(s, suf) ==
    Len(s) >= Len(suf) /\ SubSeq(s, Len(s) - Len(suf) + 1, Len(s)) = suf

\* "Step <i> (<service>.<method>)", the annotation of a failed step.
StepTag(i, step) ==
    <<"S", "t", "e", "p", " ">> \o NatToStr(i) \o <<" ", "(">> \o step.service \o <<".">>
    \o step.method \o <<")">>

\* C6: a failed step's error names the step.  When the last response of a run
\* is a failure, for the step i it answers: the returned error's text starts
\* with "Step i (service.method)"; for a response with ok = false it ends with
\* "returned error: " followed by the remote message, or by nothing when the
\* response has no error object; for a call that could not be completed it
\* is that annotation followed by " failed", wrapping the call's own error.
C6_ErrorNamesStep ==
    \A r \in Runs :
        (Len(responses[r]) > 0 /\ IsFailure(responses[r][Len(responses[r])])) =>
            LET i    == Len(responses[r]) - 1
                step == wf[r].w.steps[i + 1]
                resp == responses[r][i + 1]
                e    == outcome[r].err
            IN /\ outcome[r].tag = "err"
               /\ StartsWith(e.msg, StepTag(i, step))
               /\ (resp.sent /\ resp.error.some) =>
                     /\ EndsWith(e.msg, <<" ", "r", "e", "t", "u", "r", "n", "e", "d", " ", "e", "r", "r", "o", "r", ":", " ">> \o resp.error.v)
                     /\ Contains(e.msg, resp.error.v)
               /\ (resp.sent /\ ~resp.error.some) =>
                     e.msg = StepTag(i, step) \o <<" ", "r", "e", "t", "u", "r", "n", "e", "d", " ", "e", "r", "r", "o", "r", ":", " ">>
               /\ ~resp.sent =>
                     /\ e.msg = StepTag(i, step) \o <<" ", "f", "a", "i", "l", "e", "d">>
                     /\ e.source = resp.failure

\* C6 witness: step 1 (not step 0) answered ok = false with message "boom".
C6_Witness ==
    /\ Len(responses["r1"]) = 2
    /\ responses["r1"][2] = RespBoom
    /\ outcome["r1"].tag = "err"
    /\ wf["r1"].w.steps[1].method # wf["r1"].w.steps[2].method

\* A workflow the definition layer is to reject: empty name, no steps, or a
\* step with an empty service or method.
Invalid(w) ==
    \/ Len(w.name) = 0
    \/ Len(w.steps) = 0
    \/ \E k \in 1..Len(w.steps) :
          Len(w.steps[k].service) = 0 \/ Len(w.steps[k].method) = 0

\* C7 as stated: an invalid workflow never reaches execution, however it was
\* obtained and run: no collaborator call is made for it, no call is
\* outstanding, and a run of it that has returned returned an error raised
\* before any call (no response was ever received).
C7_InvalidNeverRuns ==
    \A r \in Runs :
        (wf[r].held /\ Invalid(wf[r].w)) =>
            /\ calls[r] = <<>>
            /\ pc[r] # "wait"
            /\ pc[r] = "done" => (outcome[r].tag = "err" /\ responses[r] = <<>>)

\* C8: parse_yaml on a document that deserializes to a workflow returns that
\* workflow exactly when the name is non-empty, there is at least one step and
\* every step has a non-empty service and method; otherwise it fails with the
\* message of the first failed check, in the order name, steps, then the steps
\* in order with service before method, the step messages carrying the index
\* of the first offending step.  A document that does not deserialize fails.
C8_ParseValidates ==
    \A r \in Runs :
        parsed[r].done =>
            LET w   == parsed[r].doc.w
                bad == { k \in 1..Len(w.steps) :
                           Len(w.steps[k].service) = 0 \/ Len(w.steps[k].method) = 0 }
                b   == CHOOSE k \in bad : \A j \in bad : k <= j
            IN IF ~parsed[r].doc.wellformed THEN ~parsed[r].ok
               ELSE /\ parsed[r].ok <=> ~Invalid(w)
                    /\ parsed[r].ok => parsed[r].w = w
                    /\ ~parsed[r].ok =>
                         IF Len(w.name) = 0
                         THEN Contains(parsed[r].msg, <<"n", "a", "m", "e", " ", "c", "a", "n", "n", "o", "t", " ", "b", "e", " ", "e", "m", "p", "t", "y">>)
                         ELSE IF Len(w.steps) = 0
                         THEN Contains(parsed[r].msg, <<"a", "t", " ", "l", "e", "a", "s", "t", " ", "o", "n", "e", " ", "s", "t", "e", "p">>)
                         ELSE IF Len(w.steps[b].service) = 0
                         THEN parsed[r].msg = <<"S", "t", "e", "p", " ">> \o NatToStr(b - 1)
                                              \o <<" ", "h", "a", "s", " ", "e", "m", "p", "t", "y", " ", "s", "e", "r", "v", "i", "c", "e", " ", "n", "a", "m", "e">>
                         ELSE parsed[r].msg = <<"S", "t", "e", "p", " ">> \o NatToStr(b - 1)
                                              \o <<" ", "h", "a", "s", " ", "e", "m", "p", "t", "y", " ", "m", "e", "t", "h", "o", "d", " ", "n", "a", "m", "e">>

\* C8 witness: a document whose step 0 has an empty method and whose step 1
\* has an empty service was parsed and rejected.
C8_Witness ==
    /\ parsed["r1"].done
    /\ parsed["r1"].doc = [wellformed |-> TRUE, w |-> WfTwoBad]
    /\ ~parsed["r1"].ok

\* What execute does on its own with workflow w when the collaborator answers
\* resps, from loop iteration i with store c, step results srs and calls cs:
\* where it stands, its store, step results and calls, and what it may return.
RECURSIVE AloneFrom(_, _, _, _, _, _)
AloneFrom(w, c, srs, cs, i, resps) ==
    LET step == w.steps[i + 1]
        rp   == ResolveParams(c, step.params)
        cs2  == Append(cs, [service |-> step.service, method |-> step.method,
                            params |-> rp.v])
        got  == Interpret(i, step, Head(resps))
    IN IF i >= Len(w.steps)
       THEN [pc |-> "done", ctx |-> c, srs |-> srs, calls |-> cs,
             outcomes |-> {OkOutcome(FinalResult(c), srs, c)}]
       ELSE IF ~rp.ok
       THEN [pc |-> "done", ctx |-> c, srs |-> srs, calls |-> cs,
             outcomes |-> { ErrOutcome(Error("template", MsgRender, HbErrorText(t)))
                              : t \in rp.errs }]
       ELSE IF Len(resps) = 0
       THEN [pc |-> "wait", ctx |-> c, srs |-> srs, calls |-> cs2,
             outcomes |-> {NoOutcome}]
       ELSE IF ~got.ok
       THEN [pc |-> "done", ctx |-> c, srs |-> srs, calls |-> cs2,
             outcomes |-> {ErrOutcome(got.err)}]
       ELSE AloneFrom(w, StoreResult(c, step, got.result),
                      Append(srs, StepResult(i, step, got.result)), cs2, i + 1,
                      Tail(resps))

\* A run at position p with store c, step results srs, calls cs and outcome o
\* is what workflow w and the responses resps determine, starting from an
\* empty store.
AsAlone(w, resps, p, c, srs, cs, o) ==
    LET a == AloneFrom(w, [variables |-> <<>>, results |-> <<>>], <<>>, <<>>, 0,
                       resps)
    IN /\ p = a.pc
       /\ c = a.ctx
       /\ srs = a.srs
       /\ cs = a.calls
       /\ o \in a.outcomes

\* C9: runs are isolated.  After every step of any caller, each caller's
\* run (first run or re-run, alone or interleaved with the other caller's)
\* has the variables, history, step results, calls and result that its own
\* workflow and its own collaborator responses produce from an empty store,
\* and no step taken while a caller has run or is running changes the
\* workflow it holds.
C9_Isolated ==
    [][ \A r \in Runs :
           /\ pc'[r] # "idle" =>
                 AsAlone(wf'[r].w, responses'[r], pc'[r], ctx'[r],
                         step_results'[r], calls'[r], outcome'[r])
           /\ pc[r] # "idle" => wf'[r] = wf[r]
      ]_vars

\* C9 witness: both callers are inside execute at once, past their first step
\* with different stores, and one of them is on a re-run.
C9_Witness ==
    /\ pc["r1"] = "wait"
    /\ pc["r2"] = "wait"
    /\ index["r1"] = 1
    /\ index["r2"] = 2
    /\ ctx["r1"].results # SubSeq(ctx["r2"].results, 1, 1)
    /\ executions = 3

\* C10 as stated: the snapshot as_json returns holds every variable under its
\* own name, the previous result under both $prev and prev (when there is
\* one), the list of all results under both $results and results, and it is
\* the data templates are rendered against.
C10_SnapshotIsScope ==
    ret.op = "as_json" =>
        /\ \A name \in DOMAIN store.variables :
              HasKey(ret.v, name) /\ Member(ret.v, name) = store.variables[name]
        /\ \A key \in {KeyDResults, KeyResults} :
              HasKey(ret.v, key) /\ Member(ret.v, key) = Arr(store.results)
        /\ Len(store.results) > 0 =>
              \A key \in {KeyDPrev, KeyPrev} :
                  /\ HasKey(ret.v, key)
                  /\ Member(ret.v, key) = store.results[Len(store.results)]
        /\ ret.v = Obj(TemplateData(store))


(***************************************************************************)
(* C11: resolving a record that has the key __template__ replaces the      *)
(* whole record by the rendering of the marker's template alone, whatever  *)
(* the sibling keys: the result has neither the marker nor a sibling key.  *)
(* As stated, for every record with the key; a record whose marker holds   *)
(* a number is resolved field by field and keeps all its keys.             *)
(***************************************************************************)
KeepsNoKey(arg, v) == v.t = "obj" => ObjKeys(v) \cap ObjKeys(arg) = {}

RenderingAlone(c, template, some, v) ==
    LET alone == RenderTemplate(c, template)
    IN some = alone.ok /\ (alone.ok => v = alone.v)

C11_MarkerReplaces ==
    (ret.op = "resolve" /\ HasKey(ret.arg, KeyTemplate)) =>
        /\ ret.some => KeepsNoKey(ret.arg, ret.v)
        /\ Member(ret.arg, KeyTemplate).t = "str" =>
               RenderingAlone(store, Member(ret.arg, KeyTemplate).s, ret.some, ret.v)

\* C11, amended: when the marker's value is a string, the result of resolve
\* is the rendering of that template alone (its value, or its failure), and
\* a successful result has neither the marker nor any sibling key.
C11_StringMarkerReplaces ==
    (/\ ret.op = "resolve"
     /\ HasKey(ret.arg, KeyTemplate)
     /\ Member(ret.arg, KeyTemplate).t = "str") =>
        /\ RenderingAlone(store, Member(ret.arg, KeyTemplate).s, ret.some, ret.v)
        /\ ret.some => KeepsNoKey(ret.arg, ret.v)

C11_Witness ==
    /\ ret.op = "resolve"
    /\ ret.arg = TplRecord
    /\ Len(ret.arg.kids) = 3
    /\ ret.some
    /\ ret.v = Num(10)


(***************************************************************************)
(* C12: resolve works on every leaf of a nested value.  A record keeps its *)
(* keys, a list its length and order, every field or element is replaced   *)
(* by its own resolution, a scalar that is no template is unchanged, and a *)
(* template yields the typed value when its rendered text parses as JSON   *)
(* (digit text becomes a number) and the rendered text as a string         *)
(* otherwise.                                                              *)
(***************************************************************************)
Typed(text) == IF ParseJson(text).some THEN ParseJson(text).v ELSE Str(text)

Rendered(c, template) == HbRender(template, TemplateData(c)).text

HasMarkup(text) == Contains(text, Open2) /\ Contains(text, Close2)

HasStringMarker(value) ==
    \E i \in 1..Len(value.kids) :
        value.kids[i].k = KeyTemplate /\ value.kids[i].v.t = "str"

RECURSIVE LeafwiseResolved(_, _, _)
LeafwiseResolved(c, in, out) ==
    CASE in.t = "obj" /\ HasStringMarker(in) ->
           out = Typed(Rendered(c, Member(in, KeyTemplate).s))
      [] in.t = "obj" /\ ~HasStringMarker(in) ->
           /\ out.t = "obj"
           /\ Len(out.kids) = Len(in.kids)
           /\ \A i \in 1..Len(in.kids) :
                  /\ out.kids[i].k = in.kids[i].k
                  /\ LeafwiseResolved(c, in.kids[i].v, out.kids[i].v)
      [] in.t = "arr" ->
           /\ out.t = "arr"
           /\ Len(out.kids) = Len(in.kids)
           /\ \A i \in 1..Len(in.kids) :
                  LeafwiseResolved(c, in.kids[i].v, out.kids[i].v)
      [] in.t = "str" /\ HasMarkup(in.s) -> out = Typed(Rendered(c, in.s))
      [] OTHER -> out = in

C12_Recursive ==
    (ret.op = "resolve" /\ ret.some) =>
        /\ LeafwiseResolved(store, ret.arg, ret.v)
        /\ (ret.arg = TplNested /\ Get(store, VarA) = Some(Num(7))) =>
               ret.v = Obj(Insert(Insert(EmptyMap, VarA, Num(7)), KeyLimit,
                                  Arr(<<Num(1), Str(<<"7", "-", "x">>), Num(7)>>)))

C12_Witness ==
    /\ ret.op = "resolve"
    /\ ret.arg = TplNested
    /\ ret.some
    /\ Get(store, VarA) = Some(Num(7))
    /\ Member(ret.v, VarA) = Num(7)
    /\ Elems(Member(ret.v, KeyLimit)) = <<Num(1), Str(<<"7", "-", "x">>), Num(7)>>


(***************************************************************************)
(* C13: resolution is idempotent on resolved values.  For every store and  *)
(* every value with no __template__ key and no double-brace markup at any  *)
(* depth, resolve returns the value itself, and resolving that result      *)
(* again returns it again.                                                 *)
(***************************************************************************)
RECURSIVE MarkupFree(_)
MarkupFree(v) ==
    CASE v.t = "obj" ->
           /\ \A i \in 1..Len(v.kids) : v.kids[i].k # KeyTemplate
           /\ \A i \in 1..Len(v.kids) : MarkupFree(v.kids[i].v)
      [] v.t = "arr" -> \A i \in 1..Len(v.kids) : MarkupFree(v.kids[i].v)
      [] v.t = "str" -> ~(Contains(v.s, Open2) /\ Contains(v.s, Close2))
      [] OTHER -> TRUE

C13_Idempotent ==
    (ret.op = "resolve" /\ MarkupFree(ret.arg)) =>
        /\ ret.some
        /\ ret.v = ret.arg
        /\ Resolve(store, ret.v) = OkVal(ret.v)

C13_Witness ==
    /\ ret.op = "resolve"
    /\ ret.arg = TplPlain
    /\ MarkupFree(ret.arg)
    /\ Member(ret.v, KeyX) = Str(<<"1", "0">>)
    /\ store.variables # EmptyMap
    /\ store.results # <<>>


(***************************************************************************)
(* C14: a template that reads a variable or path the store does not have   *)
(* never fails.  The reference renders as nothing, resolve succeeds, and   *)
(* the step is called with the resulting parameters: a run reports a       *)
(* template error only for a step holding a template whose syntax is       *)
(* wrong, and a workflow whose templates are all well formed gets the call *)
(* of every step it reaches.                                               *)
(***************************************************************************)
RECURSIVE WellFormed(_)
WellFormed(t) ==
    LET open  == Find(t, Open2, 1)
        close == Find(t, Close2, open + 2)
    IN \/ open = 0
       \/ /\ close # 0
          /\ IsPath(Trim(SubSeq(t, open + 2, close - 1)))
          /\ WellFormed(SubSeq(t, close + 2, Len(t)))

RECURSIVE ValueTemplates(_)
ValueTemplates(v) ==
    CASE v.t = "obj" /\ HasStringMarker(v) -> {Member(v, KeyTemplate).s}
      [] v.t \in {"obj", "arr"} /\ ~(v.t = "obj" /\ HasStringMarker(v)) ->
           UNION { ValueTemplates(v.kids[i].v) : i \in 1..Len(v.kids) }
      [] v.t = "str" /\ HasMarkup(v.s) -> {v.s}
      [] OTHER -> {}

StepTemplates(step) ==
    UNION { ValueTemplates(step.params[k]) : k \in DOMAIN step.params }

Successes(resps) == Cardinality({ k \in 1..Len(resps) : ~IsFailure(resps[k]) })

C14_MissingIsEmpty ==
    \A r \in Runs :
        LET w == wf[r].w
        IN /\ outcome[r].err.kind = "template" =>
                 \E t \in StepTemplates(w.steps[index[r] + 1]) : ~WellFormed(t)
           /\ (/\ pc[r] # "idle"
               /\ \A k \in 1..Len(w.steps) :
                      \A t \in StepTemplates(w.steps[k]) : WellFormed(t)) =>
                 Len(calls[r]) =
                     IF Successes(responses[r]) < Len(w.steps)
                     THEN Successes(responses[r]) + 1 ELSE Len(w.steps)
           /\ (w = WfMissing /\ Len(calls[r]) >= 1) =>
                 calls[r][1].params =
                     Obj(Insert(Insert(EmptyMap, KeyX, Str(<<"-", "e", "n", "d">>)), KeyY, Str(<<>>)))
           /\ (w = WfMissing /\ Len(calls[r]) >= 2) =>
                 calls[r][2].params = Obj(Insert(EmptyMap, KeyX, Str(<<>>)))

C14_Witness ==
    /\ wf["r1"].w = WfMissing
    /\ pc["r1"] = "wait"
    /\ Len(calls["r1"]) = 2
    /\ DOMAIN ctx["r1"].variables = {VarA}
    /\ Member(calls["r1"][2].params, KeyX) = Str(<<>>)


(***************************************************************************)
(* C15: when a step parameter holds a template handlebars rejects, the     *)
(* error the run returns carries the text of that template, in its message *)
(* or in the message of its source.                                        *)
(***************************************************************************)
C15_ErrorCarriesTemplate ==
    \A r \in Runs :
        outcome[r].err.kind = "template" =>
            \E t \in StepTemplates(wf[r].w.steps[index[r] + 1]) :
                /\ ~WellFormed(t)
                /\ \/ Contains(outcome[r].err.msg, t)
                   \/ Contains(outcome[r].err.source, t)


(***************************************************************************)
(* C16: a template error aborts the step before its call.  When resolving  *)
(* a parameter of step i fails, the collaborator is called neither for     *)
(* step i nor for a later step, the calls made are exactly those of steps  *)
(* 0..i-1, each answered with success, and the run has returned an error   *)
(* without an ExecutionResult.                                             *)
(***************************************************************************)
Rejected(step) == \E t \in StepTemplates(step) : ~WellFormed(t)

C16_TemplateErrorAborts ==
    \A r \in Runs :
        LET w == wf[r].w
        IN /\ outcome[r].err.kind = "template" =>
                 /\ pc[r] = "done"
                 /\ outcome[r].tag = "err"
                 /\ outcome[r].value = NoResult
                 /\ Len(calls[r]) = index[r]
                 /\ Len(responses[r]) = index[r]
                 /\ \A k \in 1..index[r] :
                        /\ ~IsFailure(responses[r][k])
                        /\ calls[r][k].service = w.steps[k].service
                        /\ calls[r][k].method = w.steps[k].method
           /\ \A k \in 1..Len(w.steps) :
                 Rejected(w.steps[k]) =>
                     /\ Len(calls[r]) < k
                     /\ (/\ pc[r] # "idle"
                         /\ Successes(responses[r]) = k - 1
                         /\ \A j \in 1..(k - 1) : ~Rejected(w.steps[j])) =>
                            /\ outcome[r].err.kind = "template"
                            /\ index[r] = k - 1

C16_Witness ==
    /\ wf["r1"].w = WfBadTemplate
    /\ outcome["r1"].err.kind = "template"
    /\ index["r1"] = 1
    /\ Len(calls["r1"]) = 1
    /\ Len(wf["r1"].w.steps) = 3


(***************************************************************************)
(* C17: the parameters of step i are resolved right before its call,       *)
(* against the store the steps before it left.  The parameters sent for    *)
(* step i are the resolution of its declared parameters in the store whose *)
(* results list is the results of steps 0..i-1 in order (so its previous   *)
(* result is that of step i-1, and there is none for step 0) and whose     *)
(* variables hold, for every name an earlier step declared, the result of  *)
(* the latest such step; while the call is outstanding the context is      *)
(* that store.                                                             *)
(***************************************************************************)
Binders(w, n, name) == { j \in 1..n : w.steps[j].output = Some(name) }

BoundNames(w, n) ==
    { w.steps[j].output.v : j \in { x \in 1..n : w.steps[x].output.some } }

LastBinder(w, n, name) ==
    CHOOSE j \in Binders(w, n, name) : \A x \in Binders(w, n, name) : x <= j

StoreAfter(w, resps, n) ==
    [variables |-> [name \in BoundNames(w, n) |->
                       Payload(resps[LastBinder(w, n, name)])],
     results   |-> [j \in 1..n |-> Payload(resps[j])]]

ResolvedIn(c, params) ==
    Obj([key \in DOMAIN params |-> Resolve(c, params[key]).v])

C17_FreshScope ==
    \A r \in Runs :
        /\ \A k \in 1..Len(calls[r]) :
              LET before == StoreAfter(wf[r].w, responses[r], k - 1)
              IN /\ Len(Results(before)) = k - 1
                 /\ Prev(before) = IF k = 1 THEN NoneVal
                                   ELSE Some(Payload(responses[r][k - 1]))
                 /\ calls[r][k].params = ResolvedIn(before, wf[r].w.steps[k].params)
        /\ pc[r] = "wait" =>
              ctx[r] = StoreAfter(wf[r].w, responses[r], Len(calls[r]) - 1)

C17_Witness ==
    /\ wf["r1"].w = WfRebind
    /\ pc["r1"] = "wait"
    /\ Len(calls["r1"]) = 3
    /\ Payload(responses["r1"][1]) = Num(10)
    /\ Payload(responses["r1"][2]) = Num(7)
    /\ calls["r1"][3].params =
           Obj(Insert(Insert(EmptyMap, KeyX, Num(7)), KeyY, Num(7)))


(***************************************************************************)
(* C18: the store update of a successful step with result r is exactly     *)
(* this: the history becomes the old history with r appended; when the     *)
(* step declares output o, variable o is bound to r, replacing what it     *)
(* held, and every other variable is unchanged; without an output no       *)
(* variable changes.  Hence the variable names of the store, and of the    *)
(* store a run returns, are among the output names of the executed steps.  *)
(***************************************************************************)
C18_StoreUpdate ==
    [][\A r \in Runs :
          LET n    == Len(responses[r])
              old  == ctx[r].variables
              new  == ctx'[r].variables
          IN /\ (/\ pc[r] = "wait"
                 /\ Len(responses'[r]) = n + 1
                 /\ ~IsFailure(responses'[r][n + 1])) =>
                    LET res  == Payload(responses'[r][n + 1])
                        step == wf[r].w.steps[n + 1]
                    IN /\ ctx'[r].results = Append(ctx[r].results, res)
                       /\ IF step.output.some
                          THEN /\ DOMAIN new = DOMAIN old \cup {step.output.v}
                               /\ new[step.output.v] = res
                               /\ \A x \in DOMAIN old \ {step.output.v} :
                                      new[x] = old[x]
                          ELSE new = old
             /\ DOMAIN new \subseteq BoundNames(wf'[r].w, Len(ctx'[r].results))
             /\ outcome'[r].tag = "ok" =>
                    /\ outcome'[r].value.context = ctx'[r]
                    /\ DOMAIN outcome'[r].value.context.variables \subseteq
                           BoundNames(wf'[r].w, Len(wf'[r].w.steps))
      ]_vars

\* C18 witness: two steps bound two different names, one after the other.
C18_Witness ==
    /\ wf["r1"].w = WfReserved
    /\ Len(ctx["r1"].results) = 2
    /\ DOMAIN ctx["r1"].variables = {KeyPrev, KeyResults}
    /\ ctx["r1"].variables[KeyPrev] = ctx["r1"].results[1]
    /\ ctx["r1"].variables[KeyResults] = ctx["r1"].results[2]
    /\ ctx["r1"].results[1] # ctx["r1"].results[2]


(***************************************************************************)
(* C19: the store changes only after a successful step.  A step that fails *)
(* (its template is rejected, its call fails, or its response has          *)
(* ok = false) appends nothing and binds nothing: the store always holds   *)
(* exactly the effects of the steps that succeeded, and when the run has   *)
(* failed at step i these are the effects of steps 0..i-1.                 *)
(***************************************************************************)
C19_NoUpdateOnFailure ==
    \A r \in Runs :
        LET done == Successes(responses[r])
        IN /\ Len(ctx[r].results) = done
           /\ ctx[r] = StoreAfter(wf[r].w, responses[r], done)
           /\ Len(step_results[r]) = done
           /\ outcome[r].tag = "err" =>
                 /\ index[r] = done
                 /\ \A k \in 1..done : ~IsFailure(responses[r][k])
                 /\ DOMAIN ctx[r].variables = BoundNames(wf[r].w, index[r])

\* C19 witness: the third step's response has ok = false after two steps
\* that succeeded and bound a name.
C19_Witness ==
    /\ wf["r1"].w = WfRebind
    /\ outcome["r1"].tag = "err"
    /\ outcome["r1"].err.kind = "returned"
    /\ Len(responses["r1"]) = 3
    /\ Len(ctx["r1"].results) = 2
    /\ DOMAIN ctx["r1"].variables = {VarA}


(***************************************************************************)
(* C20: a response with ok = true and no result payload is not an error.   *)
(* The step's result is null: null is appended to the history, bound to    *)
(* the step's output name when it has one, recorded in the StepResult, and *)
(* the run goes on: to the call of the next step, or to its Ok result when *)
(* the step was the last.                                                  *)
(***************************************************************************)
NoPayload(resp) == resp.sent /\ resp.ok /\ ~resp.result.some

C20_NoPayloadIsNull ==
    \A r \in Runs :
        \A k \in 1..Len(responses[r]) :
            NoPayload(responses[r][k]) =>
                LET w    == wf[r].w
                    step == w.steps[k]
                IN /\ Len(ctx[r].results) >= k
                   /\ ctx[r].results[k] = Null
                   /\ Len(step_results[r]) >= k
                   /\ step_results[r][k].result = Null
                   /\ step_results[r][k].index = k - 1
                   /\ (/\ step.output.some
                       /\ \A j \in (k + 1)..Len(ctx[r].results) :
                              w.steps[j].output # step.output) =>
                          Get(ctx[r], step.output.v) = Some(Null)
                   /\ index[r] >= k
                   /\ (k < Len(w.steps) /\ ~Rejected(w.steps[k + 1])) =>
                          Len(calls[r]) >= k + 1
                   /\ k = Len(w.steps) =>
                          /\ pc[r] = "done"
                          /\ outcome[r].tag = "ok"
                          /\ outcome[r].value.result = Null

C20_Witness ==
    /\ wf["r1"].w = WfMissing
    /\ pc["r1"] = "wait"
    /\ Len(calls["r1"]) = 2
    /\ Len(responses["r1"]) = 1
    /\ NoPayload(responses["r1"][1])
    /\ ctx["r1"].results = <<Null>>
    /\ Get(ctx["r1"], VarA) = Some(Null)
    /\ step_results["r1"][1].result = Null


(***************************************************************************)
(* C21: one StepResult per executed step, in execution order.  At every    *)
(* point of a run the number of step results, the length of the history    *)
(* and the number of completed steps are equal; the k-th step result has   *)
(* index k (counted from 0), holds workflow.steps[k] and the k-th history  *)
(* entry; and a run that succeeded returns as many step results as the     *)
(* workflow has steps.                                                     *)
(***************************************************************************)
C21_OneStepResultPerStep ==
    \A r \in Runs :
        /\ Len(step_results[r]) = Len(ctx[r].results)
        /\ Len(step_results[r]) = Successes(responses[r])
        /\ \A k \in 1..Len(step_results[r]) :
              /\ step_results[r][k].index = k - 1
              /\ step_results[r][k].step = wf[r].w.steps[k]
              /\ step_results[r][k].result = ctx[r].results[k]
              /\ step_results[r][k].result = Payload(responses[r][k])
        /\ outcome[r].tag = "ok" =>
              /\ outcome[r].value.step_results = step_results[r]
              /\ Len(outcome[r].value.step_results) = Len(wf[r].w.steps)

C21_Witness ==
    /\ wf["r1"].w = WfRebind
    /\ outcome["r1"].tag = "ok"
    /\ Len(outcome["r1"].value.step_results) = 3
    /\ outcome["r1"].value.step_results[2].index = 1
    /\ outcome["r1"].value.step_results[2].step.method = M2
    /\ outcome["r1"].value.step_results[1].result = Num(10)
    /\ outcome["r1"].value.step_results[2].result = Num(7)


(***************************************************************************)
(* C22: a run follows NotStarted, Running(0), Running(1), ..., and ends in *)
(* Completed or in Failed(i).  Running(i+1) is entered only from           *)
(* Running(i) on success, Completed only after the last step succeeded,    *)
(* Failed(i) only from Running(i), both end states are terminal, and when  *)
(* every collaborator call returns, a run eventually reaches Completed or  *)
(* Failed, after at most one call per step.                                *)
(* Running(i) is observed while the call of step i is outstanding; a step  *)
(* whose parameters fail to resolve enters Running(i) and fails within the *)
(* same step of the model, so Failed(i) may follow Running(i-1) on the     *)
(* success of step i-1, with a template error.                             *)
(***************************************************************************)
NotStarted(r) == pc[r] = "idle"

Running(r, i) == pc[r] = "wait" /\ index[r] = i

Completed(r) == pc[r] = "done" /\ outcome[r].tag = "ok"

Failed(r, i) == pc[r] = "done" /\ outcome[r].tag = "err" /\ index[r] = i

\* How a run may begin, given the state it reaches first.
Begins(r, pc2, index2, outcome2, resps2) ==
    /\ resps2 = <<>>
    /\ \/ pc2 = "wait" /\ index2 = 0
       \/ /\ pc2 = "done" /\ outcome2.tag = "err" /\ index2 = 0
          /\ outcome2.err.kind = "template"
       \/ pc2 = "done" /\ outcome2.tag = "ok" /\ Len(wf[r].w.steps) = 0

\* How a run in Running(i) may go on when a response arrives.
Advances(r, i, pc2, index2, outcome2, resps2) ==
    /\ Len(resps2) = i + 1
    /\ SubSeq(resps2, 1, i) = responses[r]
    /\ LET good == ~IsFailure(resps2[i + 1])
       IN \/ good /\ pc2 = "wait" /\ index2 = i + 1
          \/ /\ good /\ pc2 = "done" /\ outcome2.tag = "ok"
             /\ index2 = i + 1 /\ i + 1 = Len(wf[r].w.steps)
          \/ /\ good /\ pc2 = "done" /\ outcome2.tag = "err"
             /\ index2 = i + 1 /\ outcome2.err.kind = "template"
          \/ /\ ~good /\ pc2 = "done" /\ outcome2.tag = "err"
             /\ index2 = i /\ outcome2.err.kind \in {"call", "returned"}

RunShape(r) ==
    /\ Len(calls[r]) <= Len(wf[r].w.steps)
    /\ \A i \in 0..Len(wf[r].w.steps) :
          /\ Running(r, i) =>
                /\ i < Len(wf[r].w.steps)
                /\ Len(calls[r]) = i + 1
                /\ Len(responses[r]) = i
          /\ Failed(r, i) =>
                /\ i < Len(wf[r].w.steps)
                /\ Successes(responses[r]) = i
                /\ Len(calls[r]) = Len(responses[r])
                /\ Len(responses[r]) \in {i, i + 1}
    /\ pc[r] # "idle" => index[r] \in 0..Len(wf[r].w.steps)
    /\ Completed(r) =>
          /\ index[r] = Len(wf[r].w.steps)
          /\ Len(calls[r]) = Len(wf[r].w.steps)
          /\ Successes(responses[r]) = Len(wf[r].w.steps)
          /\ Len(responses[r]) = Len(wf[r].w.steps)

C22_StateMachine ==
    /\ [](\A r \in Runs : RunShape(r))
    /\ [][\A r \in Runs :
            \/ UNCHANGED <<pc[r], index[r], outcome[r], responses[r], calls[r],
                           ctx[r], step_results[r]>>
            \/ /\ NotStarted(r)
               /\ executions' = executions + 1
               /\ Begins(r, pc'[r], index'[r], outcome'[r], responses'[r])
            \/ /\ pc[r] = "wait"
               /\ executions' = executions
               /\ Advances(r, index[r], pc'[r], index'[r], outcome'[r], responses'[r])
            \/ /\ pc[r] = "done"
               /\ executions' = executions + 1
               /\ Begins(r, pc'[r], index'[r], outcome'[r], responses'[r])
       ]_vars
    /\ \A r \in Runs : (pc[r] = "wait") ~> (pc[r] = "done")

\* C22 witness: a run went through Running(0), Running(1), Running(2) and
\* ended in Failed(2) when the third call failed.
C22_Witness ==
    /\ wf["r1"].w = WfRebind
    /\ Failed("r1", 2)
    /\ outcome["r1"].err.kind = "call"
    /\ Len(calls["r1"]) = 3
    /\ Len(responses["r1"]) = 3

====
